---- MODULE Spec2Model ----
(***************************************************************************)
(* Dave Runner (server.py) and the Phil continuity harness                 *)
(* (phil_continuity_harness.py): the reflection store, the request         *)
(* handlers of the server and the validation cycle of the harness.         *)
(*                                                                         *)
(* Text is a tuple of one-character strings, so that lower() and strip()   *)
(* are computed and not assumed.  A JSON object / Python dict is a record  *)
(* whose domain is the set of keys that are present.  A drift score is an  *)
(* integer number of 1e-4 units (0.05 is 500).                             *)
(***************************************************************************)
EXTENDS Integers, Sequences, FiniteSets, TLC

VARIABLES
    store,          \* table reflections: the rows, in insertion order
    seq,            \* the SERIAL sequence behind reflections.id (last value)
    clock,          \* NOW() of the database
    openai_client,  \* server.py: the module global (TRUE = a client object)
    resp,           \* the last client request and the response it got
    AUTO_REPEAT,    \* harness configuration (HARNESS_REPEAT)
    pc,             \* harness: position in main() / run_once()
    scan_data,      \* harness: local of run_once
    cont_data,      \* harness: local of run_once
    calls,          \* harness: endpoints call() was invoked on in this cycle
    archived,       \* harness: rows inserted on behalf of this cycle
    group_before    \* history: the size the harness's group had before the last
                    \* archive that committed, until the next scan of the harness

vars == <<store, seq, clock, openai_client, resp, AUTO_REPEAT, pc, scan_data,
          cont_data, calls, archived, group_before>>

harness_vars == <<AUTO_REPEAT, pc, scan_data, cont_data, calls, archived, group_before>>

(***************************************************************************)
(* Bounds of the model.                                                    *)
(***************************************************************************)
MaxStore == 2       \* rows the table can hold before every INSERT fails
MaxRows  == 3       \* rows of the tables the aggregator is run on
GridMax  == 15      \* drift grid of the governor: -GridMax .. GridMax hundredths

(***************************************************************************)
(* Python values.  None is a record no dict equals.  A text or number      *)
(* member whose value is None (JSON null) is modelled as an absent member, *)
(* which is what (d.get(k) or default) makes of it; the member "summary"   *)
(* is absent, true or false in the requests of the model.                  *)
(***************************************************************************)
None == [None |-> TRUE]
EmptyDict == <<>>

Max(a, b) == IF a >= b THEN a ELSE b
Min(a, b) == IF a <= b THEN a ELSE b
Abs(a) == IF a < 0 THEN 0 - a ELSE a

\* str.lower(), on the alphabet of the model
LowerChar(c) ==
    CASE c = "P" -> "p"
      [] c = "A" -> "a"
      [] OTHER -> c

Lower(s) == [i \in DOMAIN s |-> LowerChar(s[i])]

IsSpace(c) == c \in {" ", "\n", "\t"}

RECURSIVE LStrip(_)
LStrip(s) == IF s # <<>> /\ IsSpace(Head(s)) THEN LStrip(Tail(s)) ELSE s

RECURSIVE RStrip(_)
RStrip(s) ==
    IF s # <<>> /\ IsSpace(s[Len(s)]) THEN RStrip(SubSeq(s, 1, Len(s) - 1)) ELSE s

\* str.strip()
Strip(s) == RStrip(LStrip(s))

\* s[:n]
Prefix(s, n) == SubSeq(s, 1, Min(n, Len(s)))

\* s[-n:]
Suffix(s, n) == SubSeq(s, Max(1, Len(s) - n + 1), Len(s))

\* d.get(k, default)
Get(d, k, default) == IF k \in DOMAIN d THEN d[k] ELSE default

\* (d.get(k) or default) for a text field: None and "" are falsy
GetStr(d, k, default) == IF k \in DOMAIN d /\ d[k] # <<>> THEN d[k] ELSE default

\* float(d.get("drift_score") or 0.0), int(d.get("limit") or n): None and 0 are falsy
GetNum(d, k, default) == IF k \in DOMAIN d /\ d[k] # 0 THEN d[k] ELSE default

(***************************************************************************)
(* Program constants.                                                      *)
(***************************************************************************)
PUBLIC     == <<"p", "u", "b", "l", "i", "c">>
GENERAL    == <<"g", "e", "n", "e", "r", "a", "l">>
LAWFUL     == <<"l", "a", "w", "f", "u", "l">>
CONTINUITY == <<"c", "o", "n", "t", "i", "n", "u", "i", "t", "y">>
MARKER     == "\n\n[Recent Context]\n"

CLAMP_BOUND   == 500
WARN_BOUND    == 800
PAUSE_BOUND   == 1200
EXCERPT_CHARS == 500
CONTEXT_CHARS == 2000
SAVE_CONTEXT_LIMIT == 20
DEFAULT_GET_LIMIT == 10
DEFAULT_CONTEXT_LIMIT == 20
LIMIT_MIN == 1
LIMIT_MAX == 200

\* harness configuration (defaults of the environment variables)
USER_ID    == <<"p", "h", "i", "l">>
THREAD_ID  == <<"c", "o", "n", "t", "i", "n", "u", "i", "t", "y", "_", "d", "i", "a", "r", "y">>
SESSION_ID == CONTINUITY
LIMIT      == 20

(***************************************************************************)
(* Responses: ok(data, **extra) and fail(msg, code).  The wall-clock "ts"  *)
(* member of every body is left out.                                       *)
(***************************************************************************)
ok(data) ==
    [status |-> 200,
     body |-> IF DOMAIN data # {} THEN [ok |-> TRUE, data |-> data] ELSE [ok |-> TRUE]]

fail(msg, code) == [status |-> code, body |-> [ok |-> FALSE, error |-> msg]]

\* a request body that is not a JSON object
InvalidBody == [invalid_json |-> TRUE]

\* get_json(): the error response, or None when d is a dict
get_json_err(d) ==
    IF d = InvalidBody THEN fail("Invalid or missing JSON body", 400) ELSE None

(***************************************************************************)
(* /reflect                                                                *)
(***************************************************************************)
\* variant: a value at a threshold falls into the laxer bucket
reflectLaxBoundary(d) ==
    IF get_json_err(d) # None THEN get_json_err(d)
    ELSE
        LET drift == GetNum(d, "drift_score", 0)
            drift_clamped == Max(Min(drift, CLAMP_BOUND), 0 - CLAMP_BOUND)
            status == IF Abs(drift) <= WARN_BOUND THEN "OK"
                      ELSE IF Abs(drift) <= PAUSE_BOUND THEN "WARN" ELSE "PAUSE"
        IN  ok([lawful |-> TRUE,
                status |-> status,
                drift_in |-> drift,
                drift_clamped |-> drift_clamped,
                reflection_excerpt |-> Prefix(GetStr(d, "content", <<>>), EXCERPT_CHARS)])

\* variant: the status is computed from the clamped value
reflectStatusOfClamped(d) ==
    IF get_json_err(d) # None THEN get_json_err(d)
    ELSE
        LET drift == GetNum(d, "drift_score", 0)
            drift_clamped == Max(Min(drift, CLAMP_BOUND), 0 - CLAMP_BOUND)
            status == IF Abs(drift_clamped) < WARN_BOUND THEN "OK"
                      ELSE IF Abs(drift_clamped) < PAUSE_BOUND THEN "WARN" ELSE "PAUSE"
        IN  ok([lawful |-> TRUE,
                status |-> status,
                drift_in |-> drift,
                drift_clamped |-> drift_clamped,
                reflection_excerpt |-> Prefix(GetStr(d, "content", <<>>), EXCERPT_CHARS)])

reflect(d) ==
    IF get_json_err(d) # None THEN get_json_err(d)
    ELSE
        LET drift == GetNum(d, "drift_score", 0)
            drift_clamped == Max(Min(drift, CLAMP_BOUND), 0 - CLAMP_BOUND)
            status == IF Abs(drift) < WARN_BOUND THEN "OK"
                      ELSE IF Abs(drift) < PAUSE_BOUND THEN "WARN" ELSE "PAUSE"
        IN  ok([lawful |-> TRUE,
                status |-> status,
                drift_in |-> drift,
                drift_clamped |-> drift_clamped,
                reflection_excerpt |-> Prefix(GetStr(d, "content", <<>>), EXCERPT_CHARS)])

(***************************************************************************)
(* The table reflections (init_db) and the queries of the handlers.        *)
(* ORDER BY leaves the order of rows with equal keys to the database: a    *)
(* query yields the set of orders it may return.                           *)
(***************************************************************************)
Injective(f) == \A i, j \in DOMAIN f : f[i] = f[j] => i = j

Perms(n) == {p \in [1..n -> 1..n] : Injective(p)}

\* ORDER BY ts ASC / ORDER BY ts DESC: may row a come before row b
TsBefore(a, b, direction) == IF direction = "ASC" THEN a.ts <= b.ts ELSE a.ts >= b.ts

\* the orders in which ORDER BY ts may return the sequence rows
Orders(rows, direction) ==
    {[i \in 1..Len(rows) |-> rows[p[i]]] : p \in
        {q \in Perms(Len(rows)) :
            \A i, j \in 1..Len(rows) :
                i < j => TsBefore(rows[q[i]], rows[q[j]], direction)}}

\* variant: the id is the current value of the sequence, not the next one
InsertRowStaleId(user, thread, content, drift, seal, session_id, now) ==
    [id |-> seq, user_id |-> user, thread_id |-> thread, content |-> content,
     drift_score |-> drift, seal |-> seal, session_id |-> session_id, ts |-> now]

\* INSERT INTO reflections (...) VALUES (...) RETURNING id, ts
InsertRow(user, thread, content, drift, seal, session_id, now) ==
    [id |-> seq + 1, user_id |-> user, thread_id |-> thread, content |-> content,
     drift_score |-> drift, seal |-> seal, session_id |-> session_id, ts |-> now]

\* the values NOW() may take at the next INSERT: clock is NOW() of the last INSERT,
\* and the clock has ticked since or has not; the first INSERT is at time 0
Now == IF store = <<>> THEN {clock} ELSE {clock, clock + 1}

\* variant: the newest rows first (ORDER BY ts DESC)
SelectWindowNewest(rows, user, thread, session_id, n) ==
    LET hit == SelectSeq(rows, LAMBDA r : r.user_id = user /\ r.thread_id = thread
                                          /\ r.session_id = session_id)
    IN  {SubSeq(o, 1, Min(n, Len(o))) : o \in Orders(hit, "DESC")}

\* the rows that ... WHERE user_id, thread_id, session_id ORDER BY ts ASC LIMIT n
\* selects
SelectWindow(rows, user, thread, session_id, n) ==
    LET hit == SelectSeq(rows, LAMBDA r : r.user_id = user /\ r.thread_id = thread
                                          /\ r.session_id = session_id)
    IN  {SubSeq(o, 1, Min(n, Len(o))) : o \in Orders(hit, "ASC")}

\* SELECT content ... WHERE user_id, thread_id, session_id ORDER BY ts ASC LIMIT n
SelectContents(rows, user, thread, session_id, n) ==
    {[i \in DOMAIN w |-> w[i].content]
     : w \in SelectWindow(rows, user, thread, session_id, n)}

\* variant: the rows of the user in every thread
SelectRecentAnyThread(rows, user, thread, n) ==
    LET hit == SelectSeq(rows, LAMBDA r : r.user_id = user)
    IN  {[i \in 1..Min(n, Len(o)) |->
            [id |-> o[i].id, content |-> o[i].content, drift_score |-> o[i].drift_score,
             seal |-> o[i].seal, session_id |-> o[i].session_id, ts |-> o[i].ts]]
         : o \in Orders(hit, "DESC")}

\* SELECT id, content, drift_score, seal, session_id, ts ... ORDER BY ts DESC LIMIT n
SelectRecent(rows, user, thread, n) ==
    LET hit == SelectSeq(rows, LAMBDA r : r.user_id = user /\ r.thread_id = thread)
    IN  {[i \in 1..Min(n, Len(o)) |->
            [id |-> o[i].id, content |-> o[i].content, drift_score |-> o[i].drift_score,
             seal |-> o[i].seal, session_id |-> o[i].session_id, ts |-> o[i].ts]]
         : o \in Orders(hit, "DESC")}

\* ts of the row inserted last
LastTs(rows) == rows[Len(rows)].ts

RECURSIVE SumDrift(_)
SumDrift(rows) == IF rows = <<>> THEN 0 ELSE Head(rows).drift_score + SumDrift(Tail(rows))

RECURSIVE MinTs(_)
MinTs(rows) == IF Len(rows) = 1 THEN rows[1].ts ELSE Min(rows[1].ts, MinTs(Tail(rows)))

RECURSIVE MaxTs(_)
MaxTs(rows) == IF Len(rows) = 1 THEN rows[1].ts ELSE Max(rows[1].ts, MaxTs(Tail(rows)))

\* variant: the mean cut off after the fourth decimal
RoundAvgTruncated(sum, n) ==
    IF sum >= 0 THEN sum \div n ELSE 0 - ((0 - sum) \div n)

\* ROUND(AVG(drift_score)::numeric, 4): the mean in 1e-4 units, half away from zero
RoundAvg(sum, n) ==
    IF sum >= 0 THEN (2 * sum + n) \div (2 * n) ELSE 0 - ((2 * (0 - sum) + n) \div (2 * n))

\* SELECT session_id, thread_id, COUNT(*), ROUND(AVG(drift_score)::numeric,4), MIN(ts), MAX(ts)
\* ... WHERE user_id GROUP BY session_id, thread_id ORDER BY MAX(ts) DESC,
\* turned into the list of session dicts
SelectSessions(rows, user) ==
    LET mine == SelectSeq(rows, LAMBDA r : r.user_id = user)
        keys == {<<mine[i].session_id, mine[i].thread_id>> : i \in DOMAIN mine}
        Group(k) == SelectSeq(mine, LAMBDA r : <<r.session_id, r.thread_id>> = k)
        Session(k) ==
            [session_id |-> k[1], thread_id |-> k[2],
             total_reflections |-> Len(Group(k)),
             avg_drift |-> RoundAvg(SumDrift(Group(k)), Len(Group(k))),
             first_ts |-> MinTs(Group(k)), last_ts |-> MaxTs(Group(k))]
        groups == {Session(k) : k \in keys}
    IN  {o \in [1..Cardinality(groups) -> groups] :
            /\ Injective(o)
            /\ \A i, j \in DOMAIN o : i < j => o[i].last_ts >= o[j].last_ts}

(***************************************************************************)
(* The summarizer: openai_client.chat.completions.create(...).  It returns *)
(* a narrative, returns no choices, or raises (error, timeout).  The       *)
(* handlers list their outcome for each of the three.                      *)
(***************************************************************************)
NARRATIVE == <<"n">>

(***************************************************************************)
(* The request handlers.  Each is the set of responses the handler can     *)
(* give to the JSON body d in the current state: one per outcome of its    *)
(* database connections, of its queries and of the summarizer.  An         *)
(* exception e of psycopg prints as OperationalError, one raised by the    *)
(* call of the summarizer as OpenAIError.                                  *)
(***************************************************************************)

\* /health: always 200; db_connected tells whether SELECT 1 went through
health == {ok([lawful |-> TRUE, db_connected |-> db_ok]) : db_ok \in BOOLEAN}

\* memory_save, lines 168-198: the context summary computed after the commit
\* (rows is the table after the insert); a member that stays None is absent
SaveSummary(rows, user, thread, session_id) ==
    IF ~openai_client THEN {EmptyDict}
    ELSE {[context_summary |-> <<"Context synthesis error: OperationalError">>]}
         \cup UNION {
            IF reflections = <<>> THEN {EmptyDict}
            ELSE {[context_summary |-> NARRATIVE],
                  EmptyDict,
                  [context_summary |-> <<"Context synthesis error: OpenAIError">>]}
            : reflections \in SelectContents(rows, user, thread, session_id,
                                             SAVE_CONTEXT_LIMIT)}

\* variant: the content is not tested before the INSERT
memory_saveUnchecked(d) ==
    IF get_json_err(d) # None THEN {[response |-> get_json_err(d), insert |-> None]}
    ELSE
        LET user == Lower(GetStr(d, "user_id", PUBLIC))
            thread == GetStr(d, "thread_id", GENERAL)
            content0 == Strip(GetStr(d, "content", <<>>))
            chat_context == Strip(GetStr(d, "chat_context", <<>>))
            drift == GetNum(d, "drift_score", 0)
            seal == Strip(GetStr(d, "seal", LAWFUL))
            session_id == Strip(GetStr(d, "session_id", CONTINUITY))
            content == IF chat_context # <<>>
                       THEN content0 \o <<MARKER>> \o Suffix(chat_context, CONTEXT_CHARS)
                       ELSE content0
        IN       {[response |-> fail("Database error: OperationalError", 500), insert |-> None]}
                 \cup
                 {[response |->
                      ok([reflection_id |-> row.id, user_id |-> user, thread_id |-> thread,
                          seal |-> seal, session_id |-> session_id, timestamp |-> row.ts]
                         @@ summary),
                   insert |-> row]
                  : <<row, summary>> \in UNION {
                        {<<r, sm>> : sm \in SaveSummary(Append(store, r), user, thread,
                                                        session_id)}
                        : r \in {InsertRow(user, thread, content, drift, seal, session_id,
                                           now) : now \in Now}}}

\* /memory/save: the outcomes [response, insert], insert being the row that was
\* committed, or None
memory_save(d) ==
    IF get_json_err(d) # None THEN {[response |-> get_json_err(d), insert |-> None]}
    ELSE
        LET user == Lower(GetStr(d, "user_id", PUBLIC))
            thread == GetStr(d, "thread_id", GENERAL)
            content0 == Strip(GetStr(d, "content", <<>>))
            chat_context == Strip(GetStr(d, "chat_context", <<>>))
            drift == GetNum(d, "drift_score", 0)
            seal == Strip(GetStr(d, "seal", LAWFUL))
            session_id == Strip(GetStr(d, "session_id", CONTINUITY))
            content == IF chat_context # <<>>
                       THEN content0 \o <<MARKER>> \o Suffix(chat_context, CONTEXT_CHARS)
                       ELSE content0
        IN  IF content = <<>>
            THEN {[response |-> fail("content required", 400), insert |-> None]}
            ELSE {[response |-> fail("Database error: OperationalError", 500), insert |-> None]}
                 \cup
                 {[response |->
                      ok([reflection_id |-> row.id, user_id |-> user, thread_id |-> thread,
                          seal |-> seal, session_id |-> session_id, timestamp |-> row.ts]
                         @@ summary),
                   insert |-> row]
                  : <<row, summary>> \in UNION {
                        {<<r, sm>> : sm \in SaveSummary(Append(store, r), user, thread,
                                                        session_id)}
                        : r \in {InsertRow(user, thread, content, drift, seal, session_id,
                                           now) : now \in Now}}}

\* /memory/get
memory_get(d) ==
    IF get_json_err(d) # None THEN {get_json_err(d)}
    ELSE
        LET user == Lower(GetStr(d, "user_id", PUBLIC))
            thread == GetStr(d, "thread_id", GENERAL)
            limit == Min(Max(GetNum(d, "limit", DEFAULT_GET_LIMIT), LIMIT_MIN), LIMIT_MAX)
        IN  {fail("Database error: OperationalError", 500)}
            \cup {ok([count |-> Len(items), items |-> items])
                  : items \in SelectRecent(store, user, thread, limit)}

\* variant: no test for an empty result before the synthesis
memory_contextUntested(d) ==
    IF ~openai_client THEN {fail("OpenAI not configured", 503)}
    ELSE IF get_json_err(d) # None THEN {get_json_err(d)}
    ELSE
        LET user == Lower(GetStr(d, "user_id", PUBLIC))
            thread == GetStr(d, "thread_id", GENERAL)
            session_id == Strip(GetStr(d, "session_id", CONTINUITY))
            limit == Min(Max(GetNum(d, "limit", DEFAULT_CONTEXT_LIMIT), LIMIT_MIN), LIMIT_MAX)
        IN  {fail("Database error: OperationalError", 500)}
            \cup UNION {
                     {ok([session_id |-> session_id, summary |-> NARRATIVE,
                          reflection_count |-> Len(reflections)]),
                      ok([session_id |-> session_id, summary |-> <<>>,
                          reflection_count |-> Len(reflections)]),
                      fail("OpenAI synthesis error: OpenAIError", 502)}
                : reflections \in SelectContents(store, user, thread, session_id, limit)}

\* /memory/context
memory_context(d) ==
    IF ~openai_client THEN {fail("OpenAI not configured", 503)}
    ELSE IF get_json_err(d) # None THEN {get_json_err(d)}
    ELSE
        LET user == Lower(GetStr(d, "user_id", PUBLIC))
            thread == GetStr(d, "thread_id", GENERAL)
            session_id == Strip(GetStr(d, "session_id", CONTINUITY))
            limit == Min(Max(GetNum(d, "limit", DEFAULT_CONTEXT_LIMIT), LIMIT_MIN), LIMIT_MAX)
        IN  {fail("Database error: OperationalError", 500)}
            \cup UNION {
                IF reflections = <<>>
                THEN {fail("No reflections found for this session", 404)}
                ELSE {ok([session_id |-> session_id, summary |-> NARRATIVE,
                          reflection_count |-> Len(reflections)]),
                      ok([session_id |-> session_id, summary |-> <<>>,
                          reflection_count |-> Len(reflections)]),
                      fail("OpenAI synthesis error: OpenAIError", 502)}
                : reflections \in SelectContents(store, user, thread, session_id, limit)}

\* memory_scan, lines 296-324, once the query returned: the result, or the
\* exception the call of the summarizer raised inside the handler's only try block
ScanResult(user, include_summary, sessions) ==
    LET result == [user_id |-> user, session_count |-> Len(sessions), sessions |-> sessions]
    IN  IF include_summary /\ openai_client /\ sessions # <<>>
        THEN {[raised |-> FALSE, result |-> result @@ [summary |-> Strip(NARRATIVE)]],
              [raised |-> TRUE, result |-> [error |-> "OpenAIError"]]}
        ELSE {[raised |-> FALSE, result |-> result]}

\* /memory/scan
memory_scan(d) ==
    IF get_json_err(d) # None THEN {get_json_err(d)}
    ELSE
        LET user == Lower(GetStr(d, "user_id", PUBLIC))
            include_summary == Get(d, "summary", TRUE)
        IN  {fail("Database error: OperationalError", 500)}
            \cup {IF r.raised THEN fail("Database error: OpenAIError", 500) ELSE ok(r.result)
                  : r \in UNION {ScanResult(user, include_summary, sessions)
                                 : sessions \in SelectSessions(store, user)}}

\* memory_context_scan, lines 343-372: the context branch
ContextBranch(user, thread, session_id, limit) ==
    IF ~openai_client THEN {EmptyDict}
    ELSE {[error |-> "OperationalError"]}
         \cup UNION {
            IF reflections = <<>> THEN {EmptyDict}
            ELSE {[session_id |-> session_id, summary |-> NARRATIVE,
                   reflection_count |-> Len(reflections)],
                  [session_id |-> session_id, summary |-> <<>>,
                   reflection_count |-> Len(reflections)],
                  [error |-> "OpenAIError"]}
            : reflections \in SelectContents(store, user, thread, session_id, limit)}

\* memory_context_scan, lines 374-414: the scan branch
ScanBranch(user, include_summary) ==
    {[error |-> "OperationalError"]}
    \cup {r.result
          : r \in UNION {ScanResult(user, include_summary, sessions)
                         : sessions \in SelectSessions(store, user)}}

\* /memory/context-scan
memory_context_scan(d) ==
    IF get_json_err(d) # None THEN {get_json_err(d)}
    ELSE
        LET user == Lower(GetStr(d, "user_id", PUBLIC))
            thread == GetStr(d, "thread_id", GENERAL)
            session_id == Strip(GetStr(d, "session_id", CONTINUITY))
            limit == Min(Max(GetNum(d, "limit", DEFAULT_CONTEXT_LIMIT), LIMIT_MIN), LIMIT_MAX)
            include_summary == Get(d, "summary", TRUE)
        IN  {ok([context_result |-> c, scan_result |-> sc])
             : c \in ContextBranch(user, thread, session_id, limit),
               sc \in ScanBranch(user, include_summary)}

(***************************************************************************)
(* Requests of the clients.                                                *)
(***************************************************************************)
ALICE == <<"A", "l">>
BLANK == <<" ">>
TEXT  == <<"a">>

\* limits a caller may send: inside the range, zero, negative, above the range
Limits == {1, 0, -3, 500}

SaveRequests ==
    {[user_id |-> USER_ID, thread_id |-> THREAD_ID, session_id |-> SESSION_ID,
      content |-> TEXT, drift_score |-> 100],
     [user_id |-> USER_ID, thread_id |-> THREAD_ID, session_id |-> SESSION_ID,
      content |-> TEXT, drift_score |-> 900, seal |-> <<"w">>],
     [user_id |-> ALICE, content |-> <<" ", "a", " ">>],
     [content |-> TEXT],
     [user_id |-> <<>>, content |-> TEXT],
     [user_id |-> BLANK, content |-> TEXT],
     [user_id |-> USER_ID, content |-> <<>>],
     [user_id |-> USER_ID, content |-> BLANK],
     [user_id |-> USER_ID],
     [user_id |-> USER_ID, content |-> BLANK, chat_context |-> <<"c">>],
     [user_id |-> USER_ID, content |-> BLANK, chat_context |-> BLANK],
     [user_id |-> <<>>, content |-> <<>>],
     InvalidBody}

GetRequests ==
    {[user_id |-> USER_ID, thread_id |-> THREAD_ID], [limit |-> 1], InvalidBody}
    \cup {[user_id |-> USER_ID, thread_id |-> THREAD_ID, limit |-> n] : n \in Limits}

ContextRequests ==
    {[user_id |-> USER_ID, thread_id |-> THREAD_ID, session_id |-> SESSION_ID],
     [user_id |-> ALICE, limit |-> 1],
     InvalidBody}
    \cup {[user_id |-> USER_ID, thread_id |-> THREAD_ID, session_id |-> SESSION_ID,
            limit |-> n] : n \in Limits}

ScanRequests ==
    {[user_id |-> USER_ID], [user_id |-> USER_ID, summary |-> FALSE], EmptyDict, InvalidBody}

ContextScanRequests ==
    {[user_id |-> USER_ID, thread_id |-> THREAD_ID, session_id |-> SESSION_ID,
      limit |-> LIMIT, summary |-> TRUE],
     [user_id |-> USER_ID, summary |-> FALSE],
     InvalidBody}
    \cup {[user_id |-> USER_ID, thread_id |-> THREAD_ID, session_id |-> SESSION_ID,
            limit |-> n, summary |-> FALSE] : n \in Limits}

\* the requests of the clients that run next to the harness
FewSaveRequests ==
    {[user_id |-> USER_ID, thread_id |-> THREAD_ID, session_id |-> SESSION_ID,
      content |-> TEXT, drift_score |-> 900],
     [user_id |-> USER_ID, content |-> BLANK]}

FewReadRequests ==
    {[user_id |-> USER_ID, thread_id |-> THREAD_ID, session_id |-> SESSION_ID]}

NoResp == [op |-> "none"]

(***************************************************************************)
(* Client requests: one action per route.  A client sends a request, the   *)
(* handler runs, the response is in resp until the client has taken it.    *)
(***************************************************************************)
\* variant: the row is written twice
CommitTwice(o) ==
    /\ o.insert # None => Len(store) < MaxStore
    /\ store' = IF o.insert # None THEN Append(Append(store, o.insert), o.insert) ELSE store
    /\ seq' = IF o.insert # None THEN o.insert.id ELSE seq
    /\ clock' = IF o.insert # None THEN o.insert.ts ELSE clock

\* the effect of an outcome of memory_save on the database
Commit(o) ==
    /\ o.insert # None => Len(store) < MaxStore
    /\ store' = IF o.insert # None THEN Append(store, o.insert) ELSE store
    /\ seq' = IF o.insert # None THEN o.insert.id ELSE seq
    /\ clock' = IF o.insert # None THEN o.insert.ts ELSE clock

ClientSave(requests) ==
    /\ resp = NoResp
    /\ \E d \in requests : \E o \in memory_save(d) :
        /\ Commit(o)
        /\ resp' = [op |-> "save", req |-> d] @@ o.response
    /\ UNCHANGED <<openai_client, harness_vars>>

ClientGet(requests) ==
    /\ resp = NoResp
    /\ \E d \in requests : \E r \in memory_get(d) :
        resp' = [op |-> "get", req |-> d] @@ r
    /\ UNCHANGED <<store, seq, clock, openai_client, harness_vars>>

ClientContext(requests) ==
    /\ resp = NoResp
    /\ \E d \in requests : \E r \in memory_context(d) :
        resp' = [op |-> "context", req |-> d] @@ r
    /\ UNCHANGED <<store, seq, clock, openai_client, harness_vars>>

ClientScan(requests) ==
    /\ resp = NoResp
    /\ \E d \in requests : \E r \in memory_scan(d) :
        resp' = [op |-> "scan", req |-> d] @@ r
    /\ UNCHANGED <<store, seq, clock, openai_client, harness_vars>>

ClientContextScan(requests) ==
    /\ resp = NoResp
    /\ \E d \in requests : \E r \in memory_context_scan(d) :
        resp' = [op |-> "context-scan", req |-> d] @@ r
    /\ UNCHANGED <<store, seq, clock, openai_client, harness_vars>>

\* the client has read the response
ClientReceive ==
    /\ resp # NoResp
    /\ resp' = NoResp
    /\ UNCHANGED <<store, seq, clock, openai_client, harness_vars>>

Init ==
    /\ store = <<>>
    /\ seq = 0
    /\ clock = 0
    /\ openai_client \in BOOLEAN
    /\ resp = NoResp
    /\ AUTO_REPEAT \in BOOLEAN
    /\ pc = "idle"
    /\ scan_data = None
    /\ cont_data = None
    /\ calls = <<>>
    /\ archived = {}
    /\ group_before = {}

(***************************************************************************)
(* The harness: phil_continuity_harness.py.                                *)
(***************************************************************************)
\* call(): the parsed body, or the dict it returns when requests raised
\* (connection error, timeout, raise_for_status on a 4xx or 5xx)
CallFailed == [ok |-> FALSE, error |-> "RequestException"]

call(responses) ==
    {CallFailed} \cup {IF r.status = 200 THEN r.body ELSE CallFailed : r \in responses}

\* check_health(), given what call("/health") returned
check_health(data) ==
    Get(data, "ok", FALSE) /\ Get(Get(data, "data", EmptyDict), "db_connected", FALSE)

RECURSIVE SumSeq(_)
SumSeq(q) == IF q = <<>> THEN 0 ELSE Head(q) + SumSeq(Tail(q))

\* round(x, 4) and f"{x:.4f}" of x = sum/n 1e-4 units: to the nearest unit, a tie to
\* the even one
PyRound(sum, n) ==
    LET a == Abs(sum)
        q == a \div n
        r == a % n
        m == IF 2 * r > n \/ (2 * r = n /\ q % 2 = 1) THEN q + 1 ELSE q
    IN  IF sum < 0 THEN 0 - m ELSE m

\* variant: a session whose average is at the bound is not lawful
scan_memoryStrict(data) ==
    IF ~Get(data, "ok", FALSE) THEN None
    ELSE
        LET info == data.data
            sessions == Get(info, "sessions", <<>>)
            avg_drifts == [i \in DOMAIN sessions |-> Get(sessions[i], "avg_drift", 0)]
        IN  [sessions |-> Len(sessions),
             avg_drift |-> IF avg_drifts # <<>>
                           THEN [sum |-> SumSeq(avg_drifts), n |-> Len(avg_drifts)]
                           ELSE [sum |-> 0, n |-> 1],
             lawful |-> \A i \in DOMAIN avg_drifts : Abs(avg_drifts[i]) < CLAMP_BOUND,
             summary |-> Get(info, "summary", <<>>)]

\* scan_memory(), given what call("/memory/scan") returned; avg_drift is the
\* fraction sum/n of the session averages
scan_memory(data) ==
    IF ~Get(data, "ok", FALSE) THEN None
    ELSE
        LET info == data.data
            sessions == Get(info, "sessions", <<>>)
            avg_drifts == [i \in DOMAIN sessions |-> Get(sessions[i], "avg_drift", 0)]
        IN  [sessions |-> Len(sessions),
             avg_drift |-> IF avg_drifts # <<>>
                           THEN [sum |-> SumSeq(avg_drifts), n |-> Len(avg_drifts)]
                           ELSE [sum |-> 0, n |-> 1],
             lawful |-> \A i \in DOMAIN avg_drifts : Abs(avg_drifts[i]) <= CLAMP_BOUND,
             summary |-> Get(info, "summary", <<>>)]

\* the payload of continuity_validation()
ValidationPayload ==
    [user_id |-> USER_ID, thread_id |-> THREAD_ID, session_id |-> SESSION_ID,
     limit |-> LIMIT, summary |-> TRUE]

\* variant: an answer whose context branch carries no summary fails the step
continuity_validationStrict(data) ==
    IF ~Get(data, "ok", FALSE) THEN None
    ELSE
        LET ctx == Get(data.data, "context_result", EmptyDict)
            scan == Get(data.data, "scan_result", EmptyDict)
        IN  IF Get(ctx, "summary", <<>>) = <<>> THEN None
            ELSE [context_summary |-> Get(ctx, "summary", <<>>),
                  global_summary |-> Get(scan, "summary", <<>>),
                  reflection_count |-> Get(ctx, "reflection_count", 0),
                  session_count |-> Get(scan, "session_count", 0)]

\* continuity_validation(), given what call("/memory/context-scan") returned
continuity_validation(data) ==
    IF ~Get(data, "ok", FALSE) THEN None
    ELSE
        LET ctx == Get(data.data, "context_result", EmptyDict)
            scan == Get(data.data, "scan_result", EmptyDict)
        IN  [context_summary |-> Get(ctx, "summary", <<>>),
             global_summary |-> Get(scan, "summary", <<>>),
             reflection_count |-> Get(ctx, "reflection_count", 0),
             session_count |-> Get(scan, "session_count", 0)]

\* the rows of the group the harness archives into
GroupSize(rows) ==
    Len(SelectSeq(rows, LAMBDA r : /\ r.user_id = USER_ID /\ r.thread_id = THREAD_ID
                                   /\ r.session_id = SESSION_ID))

\* variant: the payload names no thread_id
ArchivePayloadUnthreaded(scan, cont) ==
    [user_id |-> USER_ID, session_id |-> SESSION_ID,
     seal |-> LAWFUL,
     drift_score |-> PyRound(scan.avg_drift.sum, scan.avg_drift.n),
     content |->
        <<"[Automated Continuity Validation]",
          "Sessions: ", ToString(scan.sessions),
          "Avg Drift: ", ToString(PyRound(scan.avg_drift.sum, scan.avg_drift.n)),
          "Lawful: ", IF scan.lawful THEN "Yes" ELSE "No",
          "Context Summary:">> \o cont.context_summary
        \o <<"Global Overview:">> \o cont.global_summary
        \o <<"Status: Continuity verified, sealed under lawful reflection.">>]

\* archive_reflection(): the payload of the save
ArchivePayload(scan, cont) ==
    [user_id |-> USER_ID, thread_id |-> THREAD_ID, session_id |-> SESSION_ID,
     seal |-> LAWFUL,
     drift_score |-> PyRound(scan.avg_drift.sum, scan.avg_drift.n),
     content |->
        <<"[Automated Continuity Validation]",
          "Sessions: ", ToString(scan.sessions),
          "Avg Drift: ", ToString(PyRound(scan.avg_drift.sum, scan.avg_drift.n)),
          "Lawful: ", IF scan.lawful THEN "Yes" ELSE "No",
          "Context Summary:">> \o cont.context_summary
        \o <<"Global Overview:">> \o cont.global_summary
        \o <<"Status: Continuity verified, sealed under lawful reflection.">>]

\* variant: the loop goes round without the sleep
AfterRunNoSleep == IF AUTO_REPEAT THEN "idle" ELSE "done"

\* where main() goes when run_once() returns
AfterRun == IF AUTO_REPEAT THEN "sleep" ELSE "done"

\* main() calls run_once()
HarnessStart ==
    /\ pc = "idle"
    /\ pc' = "health"
    /\ calls' = <<>>
    /\ archived' = {}
    /\ UNCHANGED <<store, seq, clock, openai_client, resp, AUTO_REPEAT, scan_data,
                   cont_data, group_before>>

\* variant: the result of check_health() is ignored
HarnessHealthIgnored ==
    /\ pc = "health"
    /\ \E data \in call(health) :
        calls' = Append(calls, [endpoint |-> "/health", ok |-> check_health(data)])
    /\ pc' = "scan"
    /\ UNCHANGED <<store, seq, clock, openai_client, resp, AUTO_REPEAT, scan_data,
                   cont_data, archived, group_before>>

\* run_once(): if not check_health(): return
HarnessHealth ==
    /\ pc = "health"
    /\ \E data \in call(health) :
        /\ calls' = Append(calls, [endpoint |-> "/health", ok |-> check_health(data)])
        /\ pc' = IF check_health(data) THEN "scan" ELSE AfterRun
    /\ UNCHANGED <<store, seq, clock, openai_client, resp, AUTO_REPEAT, scan_data,
                   cont_data, archived, group_before>>

\* variant: run_once() returns as soon as scan_memory() returned None
HarnessScanAborts ==
    /\ pc = "scan"
    /\ \E data \in call(memory_scan([user_id |-> USER_ID, summary |-> TRUE])) :
        /\ calls' = Append(calls, [endpoint |-> "/memory/scan",
                                   ok |-> scan_memory(data) # None])
        /\ IF scan_memory(data) = None
           THEN pc' = AfterRun /\ UNCHANGED scan_data
           ELSE pc' = "context" /\ scan_data' = scan_memory(data)
    /\ group_before' = {}
    /\ UNCHANGED <<store, seq, clock, openai_client, resp, AUTO_REPEAT, cont_data,
                   archived>>

\* run_once(): scan_data = scan_memory()
HarnessScan ==
    /\ pc = "scan"
    /\ \E data \in call(memory_scan([user_id |-> USER_ID, summary |-> TRUE])) :
        /\ scan_data' = scan_memory(data)
        /\ calls' = Append(calls, [endpoint |-> "/memory/scan",
                                   ok |-> scan_memory(data) # None])
    /\ pc' = "context"
    /\ group_before' = {}
    /\ UNCHANGED <<store, seq, clock, openai_client, resp, AUTO_REPEAT, cont_data,
                   archived>>

\* variant: only scan_data is tested before archive_reflection()
HarnessContextUntested ==
    /\ pc = "context"
    /\ \E data \in call(memory_context_scan(ValidationPayload)) :
        /\ calls' = Append(calls, [endpoint |-> "/memory/context-scan",
                                   ok |-> continuity_validation(data) # None])
        /\ IF scan_data = None
           THEN pc' = AfterRun /\ scan_data' = None /\ cont_data' = None
           ELSE pc' = "archive" /\ cont_data' = continuity_validation(data)
                /\ UNCHANGED scan_data
    /\ UNCHANGED <<store, seq, clock, openai_client, resp, AUTO_REPEAT, archived,
                   group_before>>

\* run_once(): cont_data = continuity_validation(), and the test of both results;
\* the locals are gone when run_once() returns
HarnessContext ==
    /\ pc = "context"
    /\ \E data \in call(memory_context_scan(ValidationPayload)) :
        /\ calls' = Append(calls, [endpoint |-> "/memory/context-scan",
                                   ok |-> continuity_validation(data) # None])
        /\ IF scan_data = None \/ continuity_validation(data) = None
           THEN pc' = AfterRun /\ scan_data' = None /\ cont_data' = None
           ELSE pc' = "archive" /\ cont_data' = continuity_validation(data)
                /\ UNCHANGED scan_data
    /\ UNCHANGED <<store, seq, clock, openai_client, resp, AUTO_REPEAT, archived,
                   group_before>>

\* run_once(): archive_reflection(scan_data, cont_data).  The request is lost, or
\* the handler runs and its response arrives or is lost.
HarnessArchive ==
    /\ pc = "archive"
    /\ \/ /\ calls' = Append(calls, [endpoint |-> "/memory/save", ok |-> FALSE])
          /\ UNCHANGED <<store, seq, clock, archived, group_before>>
       \/ \E o \in memory_save(ArchivePayload(scan_data, cont_data)) :
          \E res \in call({o.response}) :
            /\ Commit(o)
            /\ archived' = IF o.insert # None THEN {o.insert.id} ELSE {}
            /\ group_before' = IF o.insert # None THEN {GroupSize(store)} ELSE {}
            /\ calls' = Append(calls, [endpoint |-> "/memory/save", ok |-> res.ok])
    /\ pc' = AfterRun
    /\ scan_data' = None
    /\ cont_data' = None
    /\ UNCHANGED <<openai_client, resp, AUTO_REPEAT>>

\* main(): time.sleep(SLEEP_HOURS * 3600) returns and the loop goes round
HarnessWake ==
    /\ pc = "sleep"
    /\ pc' = "idle"
    /\ UNCHANGED <<store, seq, clock, openai_client, resp, AUTO_REPEAT, scan_data,
                   cont_data, calls, archived, group_before>>

\* /reflect: the drift inputs, on a grid of hundredths and next to the thresholds
DriftGrid ==
    {100 * g : g \in (0 - GridMax)..GridMax}
    \cup {sign * (b + e) : sign \in {-1, 1}, b \in {CLAMP_BOUND, WARN_BOUND, PAUSE_BOUND},
                           e \in {-1, 1}}

ReflectRequests ==
    {[drift_score |-> x, content |-> c] : x \in DriftGrid, c \in {TEXT, <<>>}}
    \cup {[content |-> TEXT], EmptyDict, InvalidBody}

ClientReflect ==
    /\ resp = NoResp
    /\ \E d \in ReflectRequests : resp' = [op |-> "reflect", req |-> d] @@ reflect(d)
    /\ UNCHANGED <<store, seq, clock, openai_client, harness_vars>>

\* the drift governor alone
GovNext == ClientReflect \/ ClientReceive

SpecGov == Init /\ [][GovNext]_vars

\* the server and its clients, the harness not started
ServerNext ==
    \/ ClientSave(SaveRequests)
    \/ ClientGet(GetRequests)
    \/ ClientContext(ContextRequests)
    \/ ClientScan(ScanRequests)
    \/ ClientContextScan(ContextScanRequests)
    \/ ClientReceive

SpecServer == Init /\ [][ServerNext]_vars

\* the server, its clients and the harness
Next ==
    \/ ClientSave(FewSaveRequests)
    \/ ClientGet(FewReadRequests)
    \/ ClientContext(FewReadRequests)
    \/ ClientScan(FewReadRequests)
    \/ ClientContextScan(FewReadRequests)
    \/ ClientReceive
    \/ HarnessStart
    \/ HarnessHealth
    \/ HarnessScan
    \/ HarnessContext
    \/ HarnessArchive
    \/ HarnessWake

Spec == Init /\ [][Next]_vars

\* the saves of the clients that feed the harness: one into the group the harness
\* archives into, one into another group of its user
LoopSaveRequests ==
    {[user_id |-> USER_ID, thread_id |-> THREAD_ID, session_id |-> SESSION_ID,
      content |-> TEXT, drift_score |-> 900],
     [user_id |-> USER_ID, content |-> TEXT, drift_score |-> 101]}

\* the harness and the clients that save
LoopNext ==
    \/ ClientSave(LoopSaveRequests)
    \/ ClientReceive
    \/ HarnessStart
    \/ HarnessHealth
    \/ HarnessScan
    \/ HarnessContext
    \/ HarnessArchive
    \/ HarnessWake

SpecLoop == Init /\ [][LoopNext]_vars

(***************************************************************************)
(* The aggregator on stores of up to MaxRows rows: the store after any     *)
(* sequence of saves into two groups of the harness's user that share the  *)
(* session_id and into a group of another user, and the scans of clients.  *)
(***************************************************************************)
AggDrifts == {100, -200, 300}

\* what the saves insert: user, thread, session and drift
AggSaves ==
    {[user_id |-> USER_ID, thread_id |-> t, session_id |-> CONTINUITY, drift_score |-> x]
     : t \in {GENERAL, THREAD_ID}, x \in AggDrifts}
    \cup {[user_id |-> Lower(ALICE), thread_id |-> GENERAL, session_id |-> CONTINUITY,
            drift_score |-> 100]}

\* the tables that saves of the given users, groups and drifts leave, n rows at most
RECURSIVE TablesOf(_, _)
TablesOf(saves, n) ==
    IF n = 0 THEN {<<>>}
    ELSE LET shorter == TablesOf(saves, n - 1)
         IN  shorter \cup UNION {
                {Append(s, [id |-> Len(s) + 1, user_id |-> g.user_id,
                            thread_id |-> g.thread_id, content |-> TEXT,
                            drift_score |-> g.drift_score, seal |-> LAWFUL,
                            session_id |-> g.session_id, ts |-> t])
                 : g \in saves,
                   t \in IF s = <<>> THEN {0} ELSE {LastTs(s), LastTs(s) + 1}}
                : s \in {q \in shorter : Len(q) = n - 1}}

InitAgg ==
    /\ store \in TablesOf(AggSaves, MaxRows)
    /\ seq = Len(store)
    /\ clock = IF store = <<>> THEN 0 ELSE LastTs(store)
    /\ openai_client \in BOOLEAN
    /\ resp = NoResp
    /\ AUTO_REPEAT = FALSE
    /\ pc = "idle"
    /\ scan_data = None
    /\ cont_data = None
    /\ calls = <<>>
    /\ archived = {}
    /\ group_before = {}

AggScanRequests == {[user_id |-> USER_ID], [user_id |-> ALICE]}

AggNext == ClientScan(AggScanRequests) \/ ClientReceive

SpecAgg == InitAgg /\ [][AggNext]_vars

(***************************************************************************)
(* The scan step of the harness on tables of up to MaxRows rows whose      *)
(* drifts lie at, inside and outside the clamp bound.                      *)
(***************************************************************************)
VerdictSaves ==
    {[user_id |-> USER_ID, thread_id |-> THREAD_ID, session_id |-> SESSION_ID,
      drift_score |-> x] : x \in {500, 504, -504, 900, 100}}
    \cup {[user_id |-> USER_ID, thread_id |-> GENERAL, session_id |-> CONTINUITY,
            drift_score |-> x] : x \in {100, -504}}

InitVerdict ==
    /\ store \in TablesOf(VerdictSaves, MaxRows)
    /\ seq = Len(store)
    /\ clock = IF store = <<>> THEN 0 ELSE LastTs(store)
    /\ openai_client \in BOOLEAN
    /\ resp = NoResp
    /\ AUTO_REPEAT = FALSE
    /\ pc = "idle"
    /\ scan_data = None
    /\ cont_data = None
    /\ calls = <<>>
    /\ archived = {}
    /\ group_before = {}

\* run_once() up to the return of scan_memory()
VerdictNext == HarnessStart \/ HarnessHealth \/ HarnessScan

SpecVerdict == InitVerdict /\ [][VerdictNext]_vars

\* a step of the harness
HarnessStep ==
    \/ HarnessStart
    \/ HarnessHealth
    \/ HarnessScan
    \/ HarnessContext
    \/ HarnessArchive
    \/ HarnessWake

\* the harness next to clients that save
CadenceNext ==
    \/ ClientSave(FewSaveRequests)
    \/ ClientReceive
    \/ HarnessStep

\* The harness is one sequential process: every call of requests returns or times
\* out (timeout=20 and 45), and time.sleep returns, so a step of the harness that
\* stays possible is taken.
SpecCadence == Init /\ [][CadenceNext]_vars /\ WF_vars(HarnessStep)

(***************************************************************************)
(* Properties.                                                             *)
(***************************************************************************)
LastRow(rows) == rows[Len(rows)]

\* a step of the store: one row more, the rows before it as they were, its id above
\* every id handed out so far, and the step is a save that succeeded in the server
\* (a client's, or the one of the harness's archive step)
StoreGrowsByASave ==
    store' # store =>
        /\ Len(store') = Len(store) + 1
        /\ SubSeq(store', 1, Len(store)) = store
        /\ LastRow(store').id > seq
        /\ \A i \in DOMAIN store : LastRow(store').id > store[i].id
        /\ \/ resp = NoResp /\ resp'.op = "save" /\ resp'.status = 200
                /\ resp'.body.data.reflection_id = LastRow(store').id
           \/ pc = "archive" /\ archived' = {LastRow(store').id}

IdsUnique == \A i, j \in DOMAIN store : i # j => store[i].id # store[j].id

\* C1: the store is append-only: whatever requests and harness cycles run, a row once
\* stored stays with all its fields, the store changes only by a successful save
\* that adds one row, and that row's id is unique and above every id assigned before.
AppendOnly == []IdsUnique /\ [][StoreGrowsByASave]_vars

\* C1 witness: two rows, one of them archived by the harness, and a read served since
AppendOnlyWitness ==
    /\ Len(store) = 2
    /\ archived # {}
    /\ resp.op \in {"get", "context", "scan", "context-scan"}

StepOrder == <<"/health", "/memory/scan", "/memory/context-scan", "/memory/save">>

HealthFailed == calls # <<>> /\ calls[1].endpoint = "/health" /\ ~calls[1].ok

HealthAbortState ==
    HealthFailed =>
        /\ Len(calls) = 1
        /\ archived = {}
        /\ pc \in (IF AUTO_REPEAT THEN {"sleep", "idle"} ELSE {"done"})

HealthAbortStep ==
    /\ AUTO_REPEAT' = AUTO_REPEAT
    /\ (pc = "health" /\ pc' \notin {"health", "scan"}) =>
            /\ pc' = (IF AUTO_REPEAT THEN "sleep" ELSE "done")
            /\ store' = store
    /\ (pc = "sleep" /\ pc' # pc) => pc' = "idle"
    /\ (pc = "idle" /\ pc' # pc) => (pc' = "health" /\ calls' = <<>> /\ archived' = {})

\* C2: a cycle whose health check fails aborts at once: no scan, no context-scan and
\* no save is called in it, nothing is archived, and in repeat mode the harness
\* sleeps and then starts the next cycle, its configuration unchanged.
HealthCheckAbort == []HealthAbortState /\ [][HealthAbortStep]_vars

\* C2 witness: repeat mode, rows in the store, the cycle ended in its health check
HealthCheckAbortWitness ==
    HealthFailed /\ AUTO_REPEAT /\ pc = "sleep" /\ store # <<>>

\* C3: no step of a cycle is called twice; a cycle whose health check, scan or
\* context validation failed calls no save and archives nothing; every cycle starts
\* from the same harness state, whatever the cycle before it did.
FailurePolicy ==
    /\ \A i, j \in DOMAIN calls : i # j => calls[i].endpoint # calls[j].endpoint
    /\ (\E i \in DOMAIN calls : calls[i].endpoint # "/memory/save" /\ ~calls[i].ok) =>
            /\ archived = {}
            /\ pc # "archive"
            /\ \A j \in DOMAIN calls : calls[j].endpoint # "/memory/save"
    /\ pc \in {"idle", "health"} => scan_data = None /\ cont_data = None
    /\ pc = "health" => calls = <<>> /\ archived = {}

\* C3 witness: health check and scan succeeded, the context validation failed, the
\* cycle is over
FailurePolicyWitness ==
    /\ Len(calls) = 3
    /\ calls[1].ok /\ calls[2].ok /\ ~calls[3].ok
    /\ pc = "sleep"
    /\ store # <<>>

\* C4 as stated: the steps run in order, each entered only after the one before it
\* succeeded, so that no context-scan is called after a failed scan.
StrictSequencing ==
    /\ \A i \in DOMAIN calls : calls[i].endpoint = StepOrder[i]
    /\ \A i \in DOMAIN calls : i > 1 => calls[i - 1].ok

\* C4 amended: the steps run in the order health, scan, context-scan, save; the scan
\* is entered only after the health check succeeded and the save only after health
\* check, scan and context validation all succeeded; the context-scan is called
\* after the scan whether the scan succeeded or failed, and a failed scan ends the
\* cycle only after that call, without a save.
SequencingWithLateAbort ==
    /\ \A i \in DOMAIN calls : calls[i].endpoint = StepOrder[i]
    /\ Len(calls) >= 2 => calls[1].ok
    /\ (Len(calls) = 4 \/ pc = "archive") => calls[1].ok /\ calls[2].ok /\ calls[3].ok
    /\ pc = "scan" => Len(calls) = 1
    /\ pc = "context" => Len(calls) = 2
    /\ (pc \in {"sleep", "done", "idle"} /\ Len(calls) >= 2) => Len(calls) >= 3
    /\ (Len(calls) >= 3 /\ ~calls[2].ok) => Len(calls) = 3 /\ archived = {}

\* C4 witness: the scan failed, the context-scan was called all the same and
\* succeeded, and the cycle ended without a save
SequencingWitness ==
    /\ Len(calls) = 3
    /\ calls[1].ok /\ ~calls[2].ok /\ calls[3].ok
    /\ pc \in {"sleep", "done"}

\* the fields of a request as the handlers read them
ReqUser(d) == Lower(GetStr(d, "user_id", PUBLIC))
ReqThread(d) == GetStr(d, "thread_id", GENERAL)
ReqSession(d) == Strip(GetStr(d, "session_id", CONTINUITY))
ReqDrift(d) == IF "drift_score" \in DOMAIN d THEN d.drift_score ELSE 0

DbFailed(r) == r.status = 500 /\ r.body.error = "Database error: OperationalError"

HasNumbers(result) == {"session_count", "sessions"} \subseteq DOMAIN result

\* C5: a scan with include_summary set whose aggregation query succeeded answers
\* with success, session_count and the sessions, whatever the summarizer did.
ScanSurvivesSummarizer ==
    (/\ resp.op = "scan"
     /\ resp.req # InvalidBody
     /\ Get(resp.req, "summary", TRUE)
     /\ ~DbFailed(resp))
    => /\ resp.status = 200
       /\ resp.body.ok
       /\ HasNumbers(resp.body.data)

\* the results a scan of the request's user gives when nothing fails
ScanAlone(d) ==
    {r.body.data : r \in {x \in memory_scan([user_id |-> ReqUser(d),
                                            summary |-> Get(d, "summary", TRUE)])
                          : x.status = 200}}

\* C6: context-scan always returns context_result and scan_result; a failed context
\* branch leaves scan_result what a successful scan alone returns; and a failure of
\* the summarizer never takes session_count and sessions out of scan_result.
ContextScanIsolation ==
    (resp.op = "context-scan" /\ resp.req # InvalidBody) =>
        /\ resp.status = 200
        /\ {"context_result", "scan_result"} \subseteq DOMAIN resp.body.data
        /\ LET cr == resp.body.data.context_result
               sr == resp.body.data.scan_result
           IN  Get(sr, "error", "") # "OperationalError" =>
                    /\ HasNumbers(sr)
                    /\ "error" \in DOMAIN cr => sr \in ScanAlone(resp.req)

\* the stored reflections of the triple a request names
TripleCount(d) ==
    Len(SelectSeq(store, LAMBDA r : /\ r.user_id = ReqUser(d)
                                    /\ r.thread_id = ReqThread(d)
                                    /\ r.session_id = ReqSession(d)))

\* C7 as stated: a context request for a triple without stored reflections fails
\* with NotFound whatever the state of the summarizer (not configured included), and
\* a summarizer failure with matching reflections gives another error.
NotFoundInEveryState ==
    (resp.op = "context" /\ resp.req # InvalidBody /\ ~DbFailed(resp)) =>
        /\ TripleCount(resp.req) = 0 => resp.status = 404
        /\ TripleCount(resp.req) > 0 => resp.status # 404

\* C7 amended: with the summarizer configured (working or failing) and the store
\* reachable, a context request for a triple without stored reflections fails with
\* NotFound (404), never with success nor with the synthesis error, and a failure of
\* the summarizer with matching reflections fails with the synthesis error (502);
\* with the summarizer not configured every context request fails with 503 before
\* the store is read.
NotFoundWhenConfigured ==
    resp.op = "context" =>
        /\ ~openai_client => resp.status = 503
        /\ (openai_client /\ resp.req # InvalidBody /\ ~DbFailed(resp)) =>
            /\ TripleCount(resp.req) = 0 => resp.status = 404
            /\ TripleCount(resp.req) > 0 => resp.status \in {200, 502}
            /\ resp.status = 200 => resp.body.data.reflection_count > 0

\* C7 witness: the summarizer is configured, the store holds reflections, none of
\* them of the requested triple, and the answer is 404
NotFoundWitness ==
    /\ resp.op = "context"
    /\ resp.status = 404
    /\ openai_client
    /\ store # <<>>

\* the status the governor owes to drift d, its strictest label being stop
Classified(d, stop) ==
    IF Abs(d) >= 1200 THEN stop ELSE IF Abs(d) >= 800 THEN "WARN" ELSE "OK"

\* C8 as stated: the status is STOP if |d| >= 0.12, else WARN if |d| >= 0.08, else
\* OK, a value at a threshold going to the stricter bucket.
DriftClassificationStop ==
    (resp.op = "reflect" /\ resp.req # InvalidBody) =>
        /\ resp.body.data.status = Classified(ReqDrift(resp.req), "STOP")
        /\ resp.body.data.status \in {"OK", "WARN", "STOP"}

\* C8 amended: the status is PAUSE if |d| >= 0.12, else WARN if |d| >= 0.08, else OK;
\* a value at a threshold goes to the stricter bucket (0.12 gives PAUSE, 0.08 gives
\* WARN), and no status outside {OK, WARN, PAUSE} is returned.
DriftClassificationPause ==
    (resp.op = "reflect" /\ resp.req # InvalidBody) =>
        /\ resp.body.data.status = Classified(ReqDrift(resp.req), "PAUSE")
        /\ resp.body.data.status \in {"OK", "WARN", "PAUSE"}

\* C8 witness: the input at the upper threshold
DriftClassificationWitness ==
    /\ resp.op = "reflect"
    /\ resp.req # InvalidBody
    /\ ReqDrift(resp.req) = 1200
    /\ resp.body.data.status = "PAUSE"

\* C9: drift_clamped is d cut to [-0.05, 0.05] and is d when |d| <= 0.05; the status
\* comes from d and not from drift_clamped, so |d| >= 0.08 is never OK; drift_in is d.
DriftClamping ==
    (resp.op = "reflect" /\ resp.req # InvalidBody) =>
        LET d == ReqDrift(resp.req)
            r == resp.body.data
        IN  /\ r.drift_clamped = (IF d > 500 THEN 500 ELSE IF d < -500 THEN -500 ELSE d)
            /\ r.drift_clamped >= -500 /\ r.drift_clamped <= 500
            /\ Abs(d) <= 500 => r.drift_clamped = d
            /\ Abs(d) >= 800 => r.status # "OK"
            /\ r.drift_in = d

\* C9 witness: an input that is clamped and not OK
DriftClampingWitness ==
    /\ resp.op = "reflect"
    /\ resp.req # InvalidBody
    /\ ReqDrift(resp.req) = -900
    /\ resp.body.data.drift_clamped = -500
    /\ resp.body.data.status = "WARN"

BlankField(d, k) == Strip(GetStr(d, k, <<>>)) = <<>>

\* C10 as stated: a save whose user_id is empty, missing or blank, or whose content
\* is empty after trimming, fails with a validation error, so that every stored
\* row has a non-empty user_id supplied by the caller and non-empty content.
SaveValidatesUserAndContent ==
    /\ (/\ resp.op = "save"
        /\ resp.req # InvalidBody
        /\ BlankField(resp.req, "user_id") \/ BlankField(resp.req, "content"))
       => resp.status = 400
    /\ \A i \in DOMAIN store : store[i].user_id # <<>> /\ store[i].content # <<>>

SaveValidationState ==
    /\ \A i \in DOMAIN store : store[i].user_id # <<>> /\ store[i].content # <<>>
    /\ (resp.op = "save" /\ resp.req # InvalidBody) =>
        /\ (BlankField(resp.req, "content") /\ BlankField(resp.req, "chat_context"))
                => resp.status = 400
        /\ ~(BlankField(resp.req, "content") /\ BlankField(resp.req, "chat_context"))
                => resp.status \in {200, 500}
        /\ resp.status = 200 =>
            /\ LastRow(store).id = resp.body.data.reflection_id
            /\ LastRow(store).user_id =
                    (IF GetStr(resp.req, "user_id", <<>>) = <<>> THEN PUBLIC
                     ELSE Lower(resp.req.user_id))

SaveValidationStep ==
    (resp = NoResp /\ resp' # NoResp /\ resp'.op = "save" /\ resp'.status # 200)
        => store' = store

\* C10 amended: a save (of well-typed fields) whose content and chat_context are both
\* empty after trimming fails with the validation error (400) and leaves the store
\* unchanged, as does every save that fails; a save whose user_id is empty or
\* missing is not rejected but stored under "public", and a blank user_id is stored
\* as given; every stored row has a non-empty user_id and non-empty content.
SaveValidatesContent == []SaveValidationState /\ [][SaveValidationStep]_vars

\* C10 witness: rows in the store, and a save of blank content just rejected
SaveValidationWitness ==
    /\ resp.op = "save"
    /\ resp.status = 400
    /\ resp.req # InvalidBody
    /\ "content" \in DOMAIN resp.req
    /\ store # <<>>

\* the /memory/get request for the user and thread a save request names
QueryOf(d) == [k \in DOMAIN d \cap {"user_id", "thread_id"} |-> d[k]]

\* the stored rows a /memory/get request matches
MatchCount(q) ==
    Len(SelectSeq(store, LAMBDA r : r.user_id = ReqUser(q) /\ r.thread_id = ReqThread(q)))

\* the content a save request submits, trimmed, the trimmed chat_context under its
\* marker after it
TrimmedContent(d) ==
    LET content == Strip(GetStr(d, "content", <<>>))
        chat_context == Strip(GetStr(d, "chat_context", <<>>))
    IN  IF chat_context = <<>> THEN content
        ELSE content \o <<MARKER>> \o Suffix(chat_context, CONTEXT_CHARS)

\* the answers of a query sent right after the save whose response is in resp, when
\* the query matches one row
QueryAfterSave ==
    IF resp.op = "save" /\ resp.status = 200 /\ MatchCount(QueryOf(resp.req)) = 1
    THEN {r \in memory_get(QueryOf(resp.req)) : r.status = 200}
    ELSE {}

\* C11 as stated: a successful save followed at once by a query that matches only
\* the saved record returns one record whose session_id, seal, drift_score and
\* content are the submitted ones, defaults filled in for omitted fields.
RoundTripVerbatim ==
    \A r \in QueryAfterSave :
        /\ r.body.data.count = 1
        /\ r.body.data.items[1].content = GetStr(resp.req, "content", <<>>)
        /\ r.body.data.items[1].seal = GetStr(resp.req, "seal", LAWFUL)
        /\ r.body.data.items[1].session_id = GetStr(resp.req, "session_id", CONTINUITY)
        /\ r.body.data.items[1].drift_score = ReqDrift(resp.req)

\* C11 amended: a successful save followed at once by a query for its user_id and
\* thread_id (the only filter of get) that matches only the saved record returns one
\* record: its id and timestamp are those the save reported, its drift_score is the
\* submitted one (default 0), its seal and session_id are the submitted ones trimmed
\* (defaults lawful, continuity), and its content is the submitted content trimmed,
\* followed by the trimmed chat_context under its marker when one was sent; the
\* save reports the lowercased user_id (default public) and the thread_id (default
\* general), which the returned record does not carry.
RoundTripTrimmed ==
    /\ \A r \in QueryAfterSave :
        /\ r.body.data.count = 1
        /\ r.body.data.items[1] =
                [id |-> resp.body.data.reflection_id,
                 content |-> TrimmedContent(resp.req),
                 drift_score |-> ReqDrift(resp.req),
                 seal |-> Strip(GetStr(resp.req, "seal", LAWFUL)),
                 session_id |-> Strip(GetStr(resp.req, "session_id", CONTINUITY)),
                 ts |-> resp.body.data.timestamp]
    /\ (resp.op = "save" /\ resp.status = 200) =>
        /\ resp.body.data.user_id = Lower(GetStr(resp.req, "user_id", PUBLIC))
        /\ resp.body.data.thread_id = GetStr(resp.req, "thread_id", GENERAL)
        /\ LastRow(store).user_id = resp.body.data.user_id
        /\ LastRow(store).thread_id = resp.body.data.thread_id
    /\ (resp.op = "get" /\ resp.status = 200) =>
        /\ resp.body.data.count = Len(resp.body.data.items)
        /\ MatchCount(resp.req) = 1 => resp.body.data.count = 1

\* C11 witness: a save of content with blanks around it succeeded, another user's
\* row is in the store, and the query after the save has an answer
RoundTripWitness ==
    /\ QueryAfterSave # {}
    /\ Len(store) = 2
    /\ GetStr(resp.req, "content", <<>>) # TrimmedContent(resp.req)

\* the columns of the table reflections that the handlers write and read
RowFields ==
    {"id", "user_id", "thread_id", "content", "drift_score", "seal", "session_id", "ts"}

\* what /memory/get shows of a row
ItemOf(row) ==
    [id |-> row.id, content |-> row.content, drift_score |-> row.drift_score,
     seal |-> row.seal, session_id |-> row.session_id, ts |-> row.ts]

\* every stored row has all its columns, no two rows share an id, and the store
\* holds one row per INSERT that committed (seq counts them)
AtomicState ==
    /\ \A i \in DOMAIN store : DOMAIN store[i] = RowFields
    /\ \A i, j \in DOMAIN store : i # j => store[i].id # store[j].id
    /\ Len(store) = seq

\* a reader that has just been answered saw every row of its filter whole, once or
\* not at all
ReaderSeesWholeRows ==
    (resp' # resp /\ resp' # NoResp /\ resp'.status = 200) =>
        /\ resp'.op = "get" =>
                LET items == resp'.body.data.items
                IN  /\ \A i \in DOMAIN items : \E j \in DOMAIN store :
                            /\ store[j].user_id = ReqUser(resp'.req)
                            /\ store[j].thread_id = ReqThread(resp'.req)
                            /\ items[i] = ItemOf(store[j])
                    /\ \A i, j \in DOMAIN items : i # j => items[i].id # items[j].id
        /\ resp'.op = "scan" =>
                LET sessions == resp'.body.data.sessions
                IN  SumSeq([i \in DOMAIN sessions |-> sessions[i].total_reflections])
                        = Len(SelectSeq(store, LAMBDA r : r.user_id = ReqUser(resp'.req)))
        /\ resp'.op = "context" =>
                /\ resp'.body.data.reflection_count >= 1
                /\ resp'.body.data.reflection_count <= TripleCount(resp'.req)

\* a save that has just been answered, and the archive step of the harness, leave
\* one whole new row when the INSERT committed and nothing when it did not
SaveLeavesOneRow ==
    /\ (resp' # resp /\ resp' # NoResp /\ resp'.op = "save") =>
            IF resp'.status = 200
            THEN /\ Len(store') = Len(store) + 1
                 /\ SubSeq(store', 1, Len(store)) = store
                 /\ LastRow(store').id = resp'.body.data.reflection_id
                 /\ DOMAIN LastRow(store') = RowFields
            ELSE store' = store
    /\ (pc = "archive" /\ pc' # pc) =>
            IF archived' # {}
            THEN /\ Len(store') = Len(store) + 1
                 /\ SubSeq(store', 1, Len(store)) = store
                 /\ archived' = {LastRow(store').id}
            ELSE store' = store

\* C12: under any interleaving of the saves of clients and of the harness's archive
\* step, every reader sees each reflection whole or not at all, and the store holds
\* exactly one whole row per save that succeeded, the ids pairwise distinct.
AtomicAppends == []AtomicState /\ [][ReaderSeesWholeRows /\ SaveLeavesOneRow]_vars

\* C12 witness: a client's row and a row archived by the harness, both seen by a get
AtomicAppendsWitness ==
    /\ resp.op = "get"
    /\ resp.status = 200
    /\ resp.body.data.count = 2
    /\ archived # {}
    /\ \E i \in DOMAIN store : store[i].id \notin archived

\* the rows of the group the harness archives into, in the order of their insertion
GroupRows(rows) ==
    SelectSeq(rows, LAMBDA r : /\ r.user_id = USER_ID /\ r.thread_id = THREAD_ID
                               /\ r.session_id = SESSION_ID)

\* what the scan of the harness reports of its group when it succeeds: the counts
\* of the entries of the group, one per answer the server can give
ScannedGroupCounts ==
    {[i \in DOMAIN r.body.data.sessions |->
        IF /\ r.body.data.sessions[i].session_id = SESSION_ID
           /\ r.body.data.sessions[i].thread_id = THREAD_ID
        THEN r.body.data.sessions[i].total_reflections ELSE 0]
     : r \in {x \in memory_scan([user_id |-> USER_ID, summary |-> TRUE])
              : x.status = 200}}

\* a cycle whose first three steps succeeded calls the save once
OneSavePerCycle ==
    /\ pc = "archive" =>
            Len(calls) = 3 /\ \A i \in 1..3 : calls[i].ok
    /\ (pc # "archive" /\ Len(calls) >= 3 /\ \A i \in 1..3 : calls[i].ok) =>
            Len(calls) = 4 /\ calls[4].endpoint = "/memory/save"
    /\ Cardinality({i \in DOMAIN calls : calls[i].endpoint = "/memory/save"}) <= 1

\* the archive step: a save that went through adds one row, of the configured
\* triple, sealed lawful, its drift the measured average to the nearest 1e-4
ArchiveStep ==
    (pc = "archive" /\ pc' # pc) =>
        /\ Len(calls') = 4
        /\ calls'[4].ok => archived' # {}
        /\ IF archived' # {}
           THEN /\ Len(store') = Len(store) + 1
                /\ SubSeq(store', 1, Len(store)) = store
                /\ LastRow(store').user_id = USER_ID
                /\ LastRow(store').thread_id = THREAD_ID
                /\ LastRow(store').session_id = SESSION_ID
                /\ LastRow(store').seal = LAWFUL
                /\ 2 * Abs(scan_data.avg_drift.n * LastRow(store').drift_score
                           - scan_data.avg_drift.sum) <= scan_data.avg_drift.n
                /\ GroupSize(store') = GroupSize(store) + 1
                /\ group_before' = {GroupSize(store)}
           ELSE store' = store

\* C13 as stated: a cycle whose health, scan and context steps succeeded issues one
\* save for the configured triple, sealed lawful, with the rounded average drift;
\* the save adds one row, and the scan of the next cycle reports the group with a
\* count one higher than before the save.
FeedbackExactlyOne ==
    /\ []OneSavePerCycle
    /\ [][/\ ArchiveStep
          /\ (pc = "scan" /\ pc' # pc /\ scan_data' # None) =>
                \A n \in group_before : \A counts \in ScannedGroupCounts :
                    SumSeq(counts) = n + 1]_vars

\* C13 amended: as stated up to the last clause; the scan of the next cycle, when it
\* succeeds, reports the group with a count at least one higher than before the
\* save: the rows the group had, the archived row, and the rows that clients saved
\* into the group in between.
FeedbackAtLeastOne ==
    /\ []OneSavePerCycle
    /\ [][/\ ArchiveStep
          /\ (pc = "scan" /\ pc' # pc /\ scan_data' # None) =>
                \A n \in group_before : \A counts \in ScannedGroupCounts :
                    /\ SumSeq(counts) = GroupSize(store)
                    /\ SumSeq(counts) >= n + 1
                    /\ Head(GroupRows(store)[n + 1].content)
                            = "[Automated Continuity Validation]"
                    /\ GroupRows(store)[n + 1].seal = LAWFUL]_vars

\* C13 witness: the archive of the last cycle went through, a client has saved into
\* another group, and the next cycle is about to scan
FeedbackWitness ==
    /\ pc = "scan"
    /\ group_before # {}
    /\ GroupSize(store) < Len(store)
    /\ \A n \in group_before : GroupSize(store) = n + 1

\* the stored rows of the user a scan request names
RowsOfUser(d) == SelectSeq(store, LAMBDA r : r.user_id = ReqUser(d))

\* the rows of that user in the group of a session entry
RowsOfEntry(d, s) ==
    SelectSeq(RowsOfUser(d), LAMBDA r : /\ r.session_id = s.session_id
                                        /\ r.thread_id = s.thread_id)

\* C14: a scan that succeeds returns one entry per distinct (session_id, thread_id)
\* among the user's reflections, each with the number of its reflections, the mean
\* of their drift to the nearest 1e-4 and their earliest and latest timestamp; the
\* counts add up to the number of the user's reflections and the entries come by
\* latest timestamp, descending.
SessionAggregation ==
    (resp.op = "scan" /\ resp.status = 200) =>
        LET sessions == resp.body.data.sessions
            mine == RowsOfUser(resp.req)
        IN  /\ resp.body.data.session_count = Len(sessions)
            /\ \A i, j \in DOMAIN sessions :
                    (/\ sessions[i].session_id = sessions[j].session_id
                     /\ sessions[i].thread_id = sessions[j].thread_id) => i = j
            /\ {<<mine[k].session_id, mine[k].thread_id>> : k \in DOMAIN mine}
                    = {<<sessions[i].session_id, sessions[i].thread_id>>
                       : i \in DOMAIN sessions}
            /\ \A i \in DOMAIN sessions :
                    LET group == RowsOfEntry(resp.req, sessions[i])
                        n == sessions[i].total_reflections
                    IN  /\ n = Len(group)
                        /\ n >= 1
                        /\ 2 * Abs(n * sessions[i].avg_drift - SumDrift(group)) <= n
                        /\ \A k \in DOMAIN group :
                                /\ sessions[i].first_ts <= group[k].ts
                                /\ group[k].ts <= sessions[i].last_ts
                        /\ \E k \in DOMAIN group : group[k].ts = sessions[i].first_ts
                        /\ \E k \in DOMAIN group : group[k].ts = sessions[i].last_ts
            /\ SumSeq([i \in DOMAIN sessions |-> sessions[i].total_reflections])
                    = Len(mine)
            /\ \A i, j \in DOMAIN sessions :
                    i < j => sessions[i].last_ts >= sessions[j].last_ts

\* C14 witness: three reflections of phil in one session with drifts 0.01, -0.02 and
\* 0.03, scanned as one entry with total 3 and avg_drift 0.0067
SessionAggregationWitness ==
    /\ resp.op = "scan"
    /\ resp.status = 200
    /\ resp.req = [user_id |-> USER_ID]
    /\ Len(store) = 3
    /\ {store[i].drift_score : i \in DOMAIN store} = {100, -200, 300}
    /\ resp.body.data.session_count = 1
    /\ resp.body.data.sessions[1].total_reflections = 3
    /\ resp.body.data.sessions[1].avg_drift = 67
    /\ resp.body.data.sessions[1].first_ts < resp.body.data.sessions[1].last_ts

\* the sessions a scan of the harness's user returns in the current state, one list
\* per answer the server can give
ScannedSessions ==
    {r.body.data.sessions
     : r \in {x \in memory_scan([user_id |-> USER_ID, summary |-> TRUE])
              : x.status = 200}}

\* C15: the scan step of the harness reports lawful exactly when every session the
\* scan returned has |avg_drift| <= 0.05; with no session it reports lawful; the
\* verdict follows the averages of the sessions and not the drifts of single rows.
LawfulnessVerdict ==
    (pc = "context" /\ scan_data # None) =>
        /\ \A sessions \in ScannedSessions :
            /\ scan_data.sessions = Len(sessions)
            /\ scan_data.lawful
                    <=> \A i \in DOMAIN sessions :
                            sessions[i].avg_drift >= -500 /\ sessions[i].avg_drift <= 500
        /\ store = <<>> => scan_data.lawful

\* C15 witness: a session whose average is at the bound, one of its rows above it,
\* and the verdict is lawful
LawfulnessVerdictWitness ==
    /\ pc = "context"
    /\ scan_data # None
    /\ scan_data.lawful
    /\ scan_data.sessions = 1
    /\ \E i \in DOMAIN store : store[i].drift_score = 900
    /\ \E sessions \in ScannedSessions : sessions[1].avg_drift = 500

\* the limit a request asks for, the default of the route when it names none
AskedLimit(d, default) == IF "limit" \in DOMAIN d THEN d.limit ELSE default

\* the reflections a response of get, context or context-scan stands for
Returned(r) ==
    IF r.status # 200 THEN 0
    ELSE IF r.op = "get" THEN Len(r.body.data.items)
    ELSE IF r.op = "context" THEN r.body.data.reflection_count
    ELSE Get(r.body.data.context_result, "reflection_count", 0)

\* C16: whatever integer limit a caller sends (zero, negative, above 200), get,
\* context and context-scan do not reject the request for it and return at most
\* min(max(limit, 1), 200) reflections, an omitted limit being the route's default.
LimitClamping ==
    (resp.op \in {"get", "context", "context-scan"} /\ resp.req # InvalidBody) =>
        /\ resp.status # 400
        /\ Returned(resp)
                <= Min(Max(AskedLimit(resp.req, IF resp.op = "get" THEN 10 ELSE 20), 1), 200)

\* the rows whose contents context and the context branch of context-scan join for
\* the summarizer, for a request d: one window per order the query may return
SynthesisInput(d) ==
    SelectWindow(store, Lower(GetStr(d, "user_id", PUBLIC)), GetStr(d, "thread_id", GENERAL),
                 Strip(GetStr(d, "session_id", CONTINUITY)),
                 Min(Max(GetNum(d, "limit", DEFAULT_CONTEXT_LIMIT), LIMIT_MIN), LIMIT_MAX))

\* C17: the reflections that context and the context branch of context-scan hand to
\* the summarizer are of the requested triple, at most min(max(limit, 1), 200) many
\* (limit 20 when omitted), and in non-decreasing order of their timestamp.
ChronologicalInput ==
    (resp.op \in {"context", "context-scan"} /\ Returned(resp) > 0) =>
        \A w \in SynthesisInput(resp.req) :
            /\ Len(w) = Returned(resp)
            /\ \A i \in DOMAIN w :
                    /\ w[i].user_id = ReqUser(resp.req)
                    /\ w[i].thread_id = ReqThread(resp.req)
                    /\ w[i].session_id = ReqSession(resp.req)
            /\ Len(w) <= Min(Max(AskedLimit(resp.req, 20), 1), 200)
            /\ \A i, j \in DOMAIN w : i < j => w[i].ts <= w[j].ts

\* where a cycle that ends goes: to the sleep in repeat mode, to the end of main()
\* in one-shot mode
CycleEnd == IF AUTO_REPEAT THEN "sleep" ELSE "done"

CadenceState ==
    /\ AUTO_REPEAT => pc # "done"
    /\ ~AUTO_REPEAT => pc # "sleep"
    /\ (~AUTO_REPEAT /\ pc = "idle") => calls = <<>>

\* the harness moves along one cycle at a time: a cycle starts from idle only, ends
\* in the sleep (repeat mode) or in the end of main() (one-shot mode), and idle is
\* entered again from the sleep only
CadenceStep ==
    /\ AUTO_REPEAT' = AUTO_REPEAT
    /\ pc' # pc =>
        \/ pc = "idle" /\ pc' = "health" /\ (~AUTO_REPEAT => calls = <<>>)
        \/ pc = "health" /\ pc' \in {"scan", CycleEnd}
        \/ pc = "scan" /\ pc' = "context"
        \/ pc = "context" /\ pc' \in {"archive", CycleEnd}
        \/ pc = "archive" /\ pc' = CycleEnd
        \/ pc = "sleep" /\ pc' = "idle"

\* C18: in one-shot mode the harness runs one cycle and ends; in repeat mode one
\* cycle is in progress at a time, every cycle, completed or aborted, is followed by
\* the sleep before the next one starts, and a new cycle starts again and again,
\* the requests of clients going on next to it.
HarnessCadence ==
    /\ []CadenceState
    /\ [][CadenceStep]_vars
    /\ <>[](AUTO_REPEAT \/ pc = "done")
    /\ []<>(~AUTO_REPEAT \/ pc = "health")
    /\ (AUTO_REPEAT /\ pc = "health") ~> (pc = "sleep")

\* C18 witness: repeat mode, the cycle before archived, a client has saved and has a
\* request in flight, and the next cycle is in progress
HarnessCadenceWitness ==
    /\ AUTO_REPEAT
    /\ pc = "scan"
    /\ group_before # {}
    /\ Len(store) = 2
    /\ resp # NoResp

\* a request of get, context, scan or context-scan that has just been answered left
\* the table as it was
ReadsLeaveStore ==
    (resp' # resp /\ resp' # NoResp
     /\ resp'.op \in {"get", "context", "scan", "context-scan"})
        => store' = store /\ seq' = seq

\* a scan has been answered with statistics: every answer that a second scan of the
\* same request can get now, the store reachable, carries the same sessions in the
\* same order
ScanRepeats ==
    (resp.op = "scan" /\ resp.status = 200) =>
        \A again \in memory_scan(resp.req) :
            ~DbFailed(again) =>
                /\ again.status = 200
                /\ again.body.data.sessions = resp.body.data.sessions

\* C19: get, context, scan and context-scan never change the store, and two scans
\* of the same user with no save in between return the same session statistics
\* (groups, counts, average drifts, first and last timestamps, order), whatever the
\* summarizer does.
ReadsArePure == []ScanRepeats /\ [][ReadsLeaveStore]_vars

\* a save that has just been answered: an INSERT that committed is reported as a
\* success with the id of the new row, and the answer carries nothing of the
\* summarizer (no narrative and no synthesis error), the summarizer not being called
SaveWithoutSummarizer ==
    (resp' # resp /\ resp' # NoResp /\ resp'.op = "save") =>
        /\ store' # store =>
                /\ resp'.status = 200
                /\ resp'.body.data.reflection_id = LastRow(store').id
        /\ resp'.status = 200 => "context_summary" \notin DOMAIN resp'.body.data

\* C20: save only persists and does not call the summarizer, so that a slow or
\* failing summarizer neither blocks nor fails a write; whenever the INSERT
\* committed, save reports success with the id of the new reflection.
WritePathIndependent == [][SaveWithoutSummarizer]_vars

\* the context and context-scan requests of the clients, and the limit the handler
\* runs the query of such a request with
WindowRequests == (ContextRequests \cup ContextScanRequests) \ {InvalidBody}

QueryLimit(d) == Min(Max(GetNum(d, "limit", DEFAULT_CONTEXT_LIMIT), LIMIT_MIN), LIMIT_MAX)

\* a row has just been appended to the triple of request d, which held at least as
\* many rows as the query of d selects
AppendToFullGroup(d) ==
    /\ Len(store') = Len(store) + 1
    /\ LastRow(store').user_id = ReqUser(d)
    /\ LastRow(store').thread_id = ReqThread(d)
    /\ LastRow(store').session_id = ReqSession(d)
    /\ TripleCount(d) >= QueryLimit(d)

\* C21 as stated: the synthesis window is the oldest rows: once the triple holds at
\* least limit rows, a later append to it leaves the rows handed to the summarizer
\* as they were.
WindowIsOldest ==
    [][\A d \in WindowRequests :
            AppendToFullGroup(d) => SynthesisInput(d)' = SynthesisInput(d)]_vars

\* C21 amended: once the triple holds at least limit rows, a later append to it whose
\* timestamp is later than the timestamp of the last row of the window leaves the
\* rows handed to the summarizer as they were, and these are the limit oldest rows
\* of the triple.
WindowIsOldestUnlessTied ==
    [][\A d \in WindowRequests :
            (/\ AppendToFullGroup(d)
             /\ \A w \in SynthesisInput(d) : w[Len(w)].ts < LastRow(store').ts)
            => /\ SynthesisInput(d)' = SynthesisInput(d)
               /\ \A w \in SynthesisInput(d)' :
                    /\ Len(w) = QueryLimit(d)
                    /\ LastRow(store').id \notin {w[i].id : i \in DOMAIN w}]_vars

\* C21 witness: the triple held as many rows as the limit, a row was appended to it
\* later, and a context request still gets the synthesis of the older row alone
WindowIsOldestWitness ==
    /\ resp.op = "context"
    /\ resp.status = 200
    /\ resp.body.data.reflection_count = 1
    /\ TripleCount(resp.req) = 2
    /\ store[1].ts < store[2].ts
    /\ SynthesisInput(resp.req) = {<<store[1]>>}

\* what continuity_validation() returns for an answer in which neither branch
\* produced a narrative
NoNarratives(cont) == cont.context_summary = <<>> /\ cont.global_summary = <<>>

\* the endpoint answers the harness's payload with a 200 and ok whatever its two
\* branches did, an answer with no narrative at all is always among the possible
\* ones, and continuity_validation() returns None for the failed call alone
ValidationFailsWithTheCall ==
    /\ \A r \in memory_context_scan(ValidationPayload) :
         /\ r.status = 200
         /\ continuity_validation(r.body) # None
    /\ \E r \in memory_context_scan(ValidationPayload) :
         NoNarratives(continuity_validation(r.body))
    /\ \A data \in call(memory_context_scan(ValidationPayload)) :
         continuity_validation(data) = None <=> data = CallFailed
    /\ pc = "archive" =>
         /\ scan_data # None
         /\ cont_data # None
         /\ calls[Len(calls)] = [endpoint |-> "/memory/context-scan", ok |-> TRUE]
         /\ ~openai_client => NoNarratives(cont_data)

\* the CONTEXT_VALIDATION step: after a successful scan the cycle goes on to ARCHIVE
\* exactly when the call was answered, with what continuity_validation() makes of
\* one of the endpoint's answers; the ARCHIVE step saves the payload built from it
ValidationStep ==
    /\ (pc = "context" /\ pc' # "context") =>
         /\ calls'[Len(calls')].endpoint = "/memory/context-scan"
         /\ pc' = "archive" <=> (scan_data # None /\ calls'[Len(calls')].ok)
         /\ pc' = "archive" =>
              cont_data' \in {continuity_validation(r.body)
                              : r \in memory_context_scan(ValidationPayload)}
    /\ (pc = "archive" /\ archived' # {}) =>
         /\ LastRow(store').id \in archived'
         /\ LastRow(store').content = Strip(ArchivePayload(scan_data, cont_data).content)

\* C22: the harness's CONTEXT_VALIDATION step fails only when the call of
\* /memory/context-scan fails; the endpoint answers ok even when both its branches
\* failed or found nothing, so a cycle whose scan succeeded and whose call was
\* answered goes on to ARCHIVE and saves a reflection, with empty narratives when
\* no synthesis succeeded.
ValidationOnlyFailsOnCall == []ValidationFailsWithTheCall /\ [][ValidationStep]_vars

\* C22 witness: no summarizer is configured, the cycle's three calls succeeded and
\* its archive step saved a reflection whose two narratives are empty
ValidationOnlyFailsOnCallWitness ==
    /\ ~openai_client
    /\ pc \in {"sleep", "done"}
    /\ Len(calls) = 4
    /\ \A i \in 1..3 : calls[i].ok
    /\ \E i \in DOMAIN store :
         /\ store[i].id \in archived
         /\ \E k \in 1..(Len(store[i].content) - 2) :
              /\ store[i].content[k] = "Context Summary:"
              /\ store[i].content[k + 1] = "Global Overview:"
              /\ store[i].content[k + 2]
                   = "Status: Continuity verified, sealed under lawful reflection."

====
